---- MODULE Spec2Model ----
\* Model of the two scripts of the repository:
\*   pytron-example/main.py                (the Greeter)
\*   tests/fixtures/test_exit_code_custom.py (the exit-code fixture)
\* A Python str is a sequence of one-character strings.  A fixed literal of
\* the source is kept as one multi-character token, so it can never be
\* confused with the characters of a value.
EXTENDS Integers, Sequences, FiniteSets, TLC

VARIABLES prog, environ, argv, UV_CACHE_DIR, EXAMPLE_RAISE, exit_code,
          pc, stdout, stderr, status

vars == <<prog, environ, argv, UV_CACHE_DIR, EXAMPLE_RAISE, exit_code,
          pc, stdout, stderr, status>>

\* ---------------------------------------------------------------- bounds
MaxValLen == 2      \* longest generated environment value
MaxArgs == 2        \* most command-line arguments of the Greeter
MaxArgLen == 1      \* longest Greeter argument
MaxNumLen == 3      \* longest first argument of the fixture

\* -------------------------------------------------------------- alphabets
SQ == "'"
DQ == "\""
BS == "\\"
EnvAlphabet == {"a", SQ, DQ, BS}
NumAlphabet == {"0", "3", "7", "-", "+", "_", " ", "x"}
Digits == {"0", "3", "7"}
DigitVal == ("0" :> 0) @@ ("3" :> 3) @@ ("7" :> 7)

Strs(A, n) == UNION {[1..k -> A] : k \in 0..n}
Range(s) == {s[i] : i \in 1..Len(s)}

STR_false == <<"f", "a", "l", "s", "e">>
STR_0 == <<"0">>
STR_1 == <<"1">>

\* ------------------------------------------------------ Python primitives
\* A Python value of the kind os.environ.get(name, False) returns.
PyFalse == [type |-> "bool", s |-> <<>>]
PyStr(s) == [type |-> "str", s |-> s]

\* os.environ.get(name, False)
EnvironGet(name) ==
    IF name \in DOMAIN environ THEN PyStr(environ[name]) ELSE PyFalse

TruthyAnyStr(v) == v.type = "str"

TruthyParsed(v) ==
    v.type = "str" /\ Len(v.s) > 0 /\ v.s \notin {STR_false, STR_0}

\* truth value of `if X:` for X a str or the bool False
Truthy(v) == v.type = "str" /\ Len(v.s) > 0

\* repr(str): quote choice and escaping of printable characters
ReprQuote(s) == IF SQ \in Range(s) /\ DQ \notin Range(s) THEN DQ ELSE SQ

ReprBodyRaw(s, q) == s

RECURSIVE ReprBody(_, _)
ReprBody(s, q) ==
    IF s = <<>> THEN <<>>
    ELSE (IF Head(s) = BS THEN <<BS, BS>>
          ELSE IF Head(s) = q THEN <<BS, q>>
          ELSE <<Head(s)>>) \o ReprBody(Tail(s), q)

Repr(s) == <<ReprQuote(s)>> \o ReprBody(s, ReprQuote(s)) \o <<ReprQuote(s)>>

\* repr(list of str)
RECURSIVE ListReprBody(_)
ListReprBody(l) ==
    IF l = <<>> THEN <<>>
    ELSE IF Len(l) = 1 THEN Repr(l[1])
    ELSE Repr(l[1]) \o <<",", " ">> \o ListReprBody(Tail(l))

ListRepr(l) == <<"[">> \o ListReprBody(l) \o <<"]">>

ArgvWhole(a) == a

\* sys.argv[1:]
ArgvSlice(a) == SubSeq(a, 2, Len(a))

\* str(int)
DigitChars == <<"0", "1", "2", "3", "4", "5", "6", "7", "8", "9">>

RECURSIVE NatStr(_)
NatStr(n) ==
    IF n < 10 THEN <<DigitChars[n + 1]>>
    ELSE NatStr(n \div 10) \o <<DigitChars[(n % 10) + 1]>>

IntStr(n) == IF n < 0 THEN <<"-">> \o NatStr(0 - n) ELSE NatStr(n)

\* int(str): strip whitespace, optional sign, digits with single
\* underscores between digits; anything else raises ValueError.
RECURSIVE Strip(_)
Strip(s) ==
    IF s = <<>> THEN s
    ELSE IF Head(s) = " " THEN Strip(Tail(s))
    ELSE IF s[Len(s)] = " " THEN Strip(SubSeq(s, 1, Len(s) - 1))
    ELSE s

Unsigned(s) == IF s # <<>> /\ Head(s) \in {"-", "+"} THEN Tail(s) ELSE s

ValidDigits(d) ==
    /\ d # <<>>
    /\ \A i \in 1..Len(d) : d[i] \in Digits \cup {"_"}
    /\ d[1] \in Digits
    /\ d[Len(d)] \in Digits
    /\ \A i \in 1..(Len(d) - 1) : ~(d[i] = "_" /\ d[i + 1] = "_")

RECURSIVE DigitsValueSum(_, _)
DigitsValueSum(d, acc) ==
    IF d = <<>> THEN acc
    ELSE IF Head(d) = "_" THEN DigitsValueSum(Tail(d), acc)
    ELSE DigitsValueSum(Tail(d), acc + DigitVal[Head(d)])

RECURSIVE DigitsValue(_, _)
DigitsValue(d, acc) ==
    IF d = <<>> THEN acc
    ELSE IF Head(d) = "_" THEN DigitsValue(Tail(d), acc)
    ELSE DigitsValue(Tail(d), acc * 10 + DigitVal[Head(d)])

PyInt(s) ==
    LET t == Strip(s)
        d == Unsigned(t)
    IN  IF ValidDigits(d)
        THEN [ok |-> TRUE,
              n |-> IF Head(t) = "-" THEN 0 - DigitsValue(d, 0)
                    ELSE DigitsValue(d, 0)]
        ELSE [ok |-> FALSE, n |-> 0]

WaitStatusClamped(n) == IF n > 255 THEN 255 ELSE IF n < 0 THEN 0 ELSE n

\* exit status the parent observes for sys.exit(n): low eight bits
WaitStatus(n) == n % 256

\* -------------------------------------------------------- output lines
GREETING == <<"Hello from pytron-example!">>
RecognizedLine(v) == <<"I've recognized UV_CACHE_DIR =">> \o Repr(v)
ArgumentsLine(l) == <<"Arguments received: ">> \o ListRepr(l)
CustomLine(n) == <<"Custom exit code: ">> \o IntStr(n)
RuntimeErrorLine == <<"RuntimeError: ", "I am raised from within main.py">>
ValueErrorLine(s) ==
    <<"ValueError: invalid literal for int() with base 10: ">> \o Repr(s)

DEFAULT_SUCCESS == 42 - 42
DEFAULT_EXIT_CODE == 42
UNCAUGHT_STATUS == 1

\* ------------------------------------------------------------------ Init
GREETER == "main.py"
FIXTURE == "test_exit_code_custom.py"

EnvValues == Strs(EnvAlphabet, MaxValLen) \cup {STR_false, STR_0}
RaiseValues == {<<>>, STR_1, STR_false, STR_0}
GreeterArgs == Strs(Strs(EnvAlphabet, MaxArgLen), MaxArgs)
FixtureArgs ==
    {<<>>} \cup {<<a>> : a \in Strs(NumAlphabet, MaxNumLen)}
           \cup {<<a, STR_0>> : a \in Strs(NumAlphabet, MaxNumLen)}

Environs ==
    {[n \in {} |-> <<>>]}
    \cup {[n \in {"UV_CACHE_DIR"} |-> v] : v \in EnvValues}
    \cup {[n \in {"EXAMPLE_RAISE"} |-> v] : v \in RaiseValues}
    \cup {[n \in {"UV_CACHE_DIR", "EXAMPLE_RAISE"} |->
              IF n = "UV_CACHE_DIR" THEN p[1] ELSE p[2]] :
          p \in EnvValues \X RaiseValues}

Init ==
    /\ prog \in {GREETER, FIXTURE}
    /\ IF prog = GREETER
       THEN /\ environ \in Environs
            /\ \E a \in GreeterArgs : argv = <<<<GREETER>>>> \o a
            /\ pc = "import"
       ELSE /\ environ = [n \in {} |-> <<>>]
            /\ \E a \in FixtureArgs : argv = <<<<FIXTURE>>>> \o a
            /\ pc = "parse"
    /\ UV_CACHE_DIR = PyFalse
    /\ EXAMPLE_RAISE = PyFalse
    /\ exit_code = 0
    /\ stdout = <<>>
    /\ stderr = <<>>
    /\ status = {}

\* --------------------------------------------------------------- Greeter
\* order of the statements of main.py: module level, then the body of main()
StatementAfterRaiseEarly(p) ==
    CASE p = "import" -> "greet"
      [] p = "greet" -> "cache"
      [] p = "cache" -> "raise"
      [] p = "args" -> "raise"
      [] p = "raise" -> "exited"

StatementAfterSwapped(p) ==
    CASE p = "import" -> "cache"
      [] p = "cache" -> "greet"
      [] p = "greet" -> "args"
      [] p = "args" -> "raise"
      [] p = "raise" -> "exited"

StatementAfter(p) ==
    CASE p = "import" -> "greet"
      [] p = "greet" -> "cache"
      [] p = "cache" -> "args"
      [] p = "args" -> "raise"
      [] p = "raise" -> "exited"

\* main.py:4-5, the module-level lookups
LoadModule ==
    /\ pc = "import"
    /\ UV_CACHE_DIR' = EnvironGet("UV_CACHE_DIR")
    /\ EXAMPLE_RAISE' = EnvironGet("EXAMPLE_RAISE")
    /\ pc' = StatementAfter("import")
    /\ UNCHANGED <<prog, environ, argv, exit_code, stdout, stderr, status>>

\* main.py:7
PrintGreeting ==
    /\ pc = "greet"
    /\ stdout' = Append(stdout, GREETING)
    /\ pc' = StatementAfter("greet")
    /\ UNCHANGED <<prog, environ, argv, UV_CACHE_DIR, EXAMPLE_RAISE,
                   exit_code, stderr, status>>

\* main.py:8-9
PrintRecognized ==
    /\ pc = "cache"
    /\ stdout' = IF Truthy(UV_CACHE_DIR)
                 THEN Append(stdout, RecognizedLine(UV_CACHE_DIR.s))
                 ELSE stdout
    /\ pc' = StatementAfter("cache")
    /\ UNCHANGED <<prog, environ, argv, UV_CACHE_DIR, EXAMPLE_RAISE,
                   exit_code, stderr, status>>

\* main.py:12
PrintArguments ==
    /\ pc = "args"
    /\ stdout' = Append(stdout, ArgumentsLine(ArgvSlice(argv)))
    /\ pc' = StatementAfter("args")
    /\ UNCHANGED <<prog, environ, argv, UV_CACHE_DIR, EXAMPLE_RAISE,
                   exit_code, stderr, status>>

\* main.py:14-15 and the interpreter's exit: an uncaught RuntimeError
\* ends the process with status 1, a normal return with status 0
RaiseOrReturn ==
    /\ pc = "raise"
    /\ IF Truthy(EXAMPLE_RAISE)
       THEN /\ stderr' = Append(stderr, RuntimeErrorLine)
            /\ status' = {UNCAUGHT_STATUS}
            /\ pc' = "aborted"
       ELSE /\ stderr' = stderr
            /\ status' = {0}
            /\ pc' = StatementAfter("raise")
    /\ UNCHANGED <<prog, environ, argv, UV_CACHE_DIR, EXAMPLE_RAISE,
                   exit_code, stdout>>

\* ------------------------------------------------------ exit-code fixture
ParseExitCodeCaught ==
    /\ pc = "parse"
    /\ exit_code' = IF Len(argv) > 1 /\ PyInt(argv[2]).ok
                    THEN PyInt(argv[2]).n
                    ELSE DEFAULT_EXIT_CODE
    /\ pc' = "print"
    /\ UNCHANGED <<prog, environ, argv, UV_CACHE_DIR, EXAMPLE_RAISE,
                   stdout, stderr, status>>

\* test_exit_code_custom.py:5
ParseExitCode ==
    /\ pc = "parse"
    /\ IF Len(argv) > 1
       THEN IF PyInt(argv[2]).ok
            THEN /\ exit_code' = PyInt(argv[2]).n
                 /\ pc' = "print"
                 /\ UNCHANGED <<stderr, status>>
            ELSE /\ stderr' = Append(stderr, ValueErrorLine(argv[2]))
                 /\ status' = {UNCAUGHT_STATUS}
                 /\ pc' = "aborted"
                 /\ UNCHANGED exit_code
       ELSE /\ exit_code' = DEFAULT_EXIT_CODE
            /\ pc' = "print"
            /\ UNCHANGED <<stderr, status>>
    /\ UNCHANGED <<prog, environ, argv, UV_CACHE_DIR, EXAMPLE_RAISE, stdout>>

\* test_exit_code_custom.py:6
PrintExitCode ==
    /\ pc = "print"
    /\ stdout' = Append(stdout, CustomLine(exit_code))
    /\ pc' = "exit"
    /\ UNCHANGED <<prog, environ, argv, UV_CACHE_DIR, EXAMPLE_RAISE,
                   exit_code, stderr, status>>

\* test_exit_code_custom.py:7 and :10, sys.exit(main())
SysExit ==
    /\ pc = "exit"
    /\ status' = {WaitStatus(exit_code)}
    /\ pc' = "exited"
    /\ UNCHANGED <<prog, environ, argv, UV_CACHE_DIR, EXAMPLE_RAISE,
                   exit_code, stdout, stderr>>

Next ==
    \/ LoadModule
    \/ PrintGreeting
    \/ PrintRecognized
    \/ PrintArguments
    \/ RaiseOrReturn
    \/ ParseExitCode
    \/ PrintExitCode
    \/ SysExit

Spec == Init /\ [][Next]_vars

\* the interpreter always executes the next statement of a running script
LiveSpec == Spec /\ WF_vars(Next)

Terminal == {"exited", "aborted"}

TypeOK ==
    /\ prog \in {GREETER, FIXTURE}
    /\ pc \in {"import", "greet", "cache", "args", "raise", "parse",
               "print", "exit", "exited", "aborted"}
    /\ Cardinality(status) <= 1

\* ------------------------------------------------- reading the output back
UVSet == "UV_CACHE_DIR" \in DOMAIN environ /\ environ["UV_CACHE_DIR"] # <<>>
RaiseSet == "EXAMPLE_RAISE" \in DOMAIN environ /\ environ["EXAMPLE_RAISE"] # <<>>

IsGreeting(line) == line = <<"Hello from pytron-example!">>
IsRecognized(line) == line[1] = "I've recognized UV_CACHE_DIR ="
IsArguments(line) == line[1] = "Arguments received: "
IsCustom(line) == line[1] = "Custom exit code: "

Count(P(_)) == Cardinality({i \in 1..Len(stdout) : P(stdout[i])})

\* v occurs in line as a contiguous run of characters
Contains(line, v) ==
    \E i \in 0..(Len(line) - Len(v)) : SubSeq(line, i + 1, i + Len(v)) = v

\* a reader of Python string literals
RECURSIVE Unescape(_)
Unescape(b) ==
    IF b = <<>> THEN <<>>
    ELSE IF Head(b) = BS /\ Len(b) >= 2
         THEN <<b[2]>> \o Unescape(SubSeq(b, 3, Len(b)))
         ELSE <<Head(b)>> \o Unescape(Tail(b))

RECURSIVE CloseIdx(_, _, _)
CloseIdx(t, i, q) ==
    IF i > Len(t) THEN 0
    ELSE IF t[i] = BS THEN CloseIdx(t, i + 2, q)
    ELSE IF t[i] = q THEN i
    ELSE CloseIdx(t, i + 1, q)

ParseFail == [ok |-> FALSE, items |-> <<>>]

RECURSIVE ParseItems(_)
ParseItems(t) ==
    IF t = <<>> THEN [ok |-> TRUE, items |-> <<>>]
    ELSE IF t[1] \notin {SQ, DQ} THEN ParseFail
    ELSE LET e == CloseIdx(t, 2, t[1]) IN
         IF e = 0 THEN ParseFail
         ELSE LET item == Unescape(SubSeq(t, 2, e - 1))
                  rest == SubSeq(t, e + 1, Len(t))
              IN  IF rest = <<>> THEN [ok |-> TRUE, items |-> <<item>>]
                  ELSE IF Len(rest) >= 3 /\ rest[1] = "," /\ rest[2] = " "
                  THEN LET r == ParseItems(SubSeq(rest, 3, Len(rest)))
                       IN  [ok |-> r.ok, items |-> <<item>> \o r.items]
                  ELSE ParseFail

\* the items of a rendered list "[...]", or a failure
ParseList(t) ==
    IF Len(t) >= 2 /\ t[1] = "[" /\ t[Len(t)] = "]"
    THEN ParseItems(SubSeq(t, 2, Len(t) - 1))
    ELSE ParseFail

\* the value of a rendered string literal, or a failure
ParseStr(t) ==
    LET r == ParseItems(t)
    IN  IF r.ok /\ Len(r.items) = 1 THEN r ELSE ParseFail

GreeterDone == prog = GREETER /\ pc \in Terminal
FixtureDone == prog = FIXTURE /\ pc \in Terminal

\* ------------------------------------------------------------------ C1
\* C1 as stated: with UV_CACHE_DIR set to a non-empty value, the recognition
\* line is printed first, then the greeting, then the arguments line.
C1_RecognitionFirst ==
    (GreeterDone /\ UVSet) =>
        /\ Len(stdout) = 3
        /\ IsRecognized(stdout[1])
        /\ IsGreeting(stdout[2])
        /\ IsArguments(stdout[3])

\* C1 amended: with UV_CACHE_DIR set to a non-empty value, the output is
\* always a prefix of greeting, recognition line, arguments line, in that
\* order, and is all three once the process has ended.
C1_GreetingFirst ==
    (prog = GREETER /\ UVSet) =>
        /\ Len(stdout) <= 3
        /\ Len(stdout) >= 1 => IsGreeting(stdout[1])
        /\ Len(stdout) >= 2 => IsRecognized(stdout[2])
        /\ Len(stdout) >= 3 => IsArguments(stdout[3])
        /\ pc \in Terminal => Len(stdout) = 3

C1_Witness ==
    /\ GreeterDone /\ UVSet
    /\ Len(stdout) = 3 /\ IsRecognized(stdout[2])

\* ------------------------------------------------------------------ C2
\* C2: the Greeter ends aborted with a non-zero status whenever
\* EXAMPLE_RAISE is set to a non-empty value, whatever the arguments and
\* UV_CACHE_DIR are, and never aborts when it is unset or empty.
C2_RaiseAborts ==
    prog = GREETER =>
        /\ (pc \in Terminal /\ RaiseSet) =>
               pc = "aborted" /\ status # {} /\ 0 \notin status
        /\ pc = "aborted" => RaiseSet
        /\ (pc \in Terminal /\ ~RaiseSet) => pc = "exited" /\ status = {0}

C2_Witness ==
    /\ prog = GREETER /\ pc = "aborted" /\ RaiseSet
    /\ UVSet /\ Len(argv) = 3 /\ 0 \notin status

\* ------------------------------------------------------------------ C3
\* C3 as stated: the recognition line is printed iff UV_CACHE_DIR is set
\* to a non-empty string, and then it contains that exact character
\* sequence.
C3_ContainsExactValue ==
    GreeterDone =>
        /\ UVSet <=> Count(IsRecognized) > 0
        /\ UVSet => \E i \in 1..Len(stdout) :
                        /\ IsRecognized(stdout[i])
                        /\ Contains(Tail(stdout[i]), environ["UV_CACHE_DIR"])

NoEscapeNeeded(v) == BS \notin Range(v) /\ ~(SQ \in Range(v) /\ DQ \in Range(v))

\* C3 amended: the recognition line is printed iff UV_CACHE_DIR is set to a
\* non-empty string; it carries the value as a quoted, escaped string
\* literal that reads back to exactly the value, and it contains the exact
\* character sequence whenever the value has no backslash and does not hold
\* both quote characters.
C3_RecognizedRepr ==
    GreeterDone =>
        /\ UVSet <=> Count(IsRecognized) > 0
        /\ Count(IsRecognized) <= 1
        /\ UVSet => \E i \in 1..Len(stdout) :
              /\ IsRecognized(stdout[i])
              /\ ParseStr(Tail(stdout[i])).ok
              /\ ParseStr(Tail(stdout[i])).items = <<environ["UV_CACHE_DIR"]>>
              /\ NoEscapeNeeded(environ["UV_CACHE_DIR"]) =>
                     Contains(Tail(stdout[i]), environ["UV_CACHE_DIR"])

C3_Witness ==
    /\ GreeterDone /\ UVSet
    /\ BS \in Range(environ["UV_CACHE_DIR"])
    /\ Count(IsRecognized) = 1

\* ------------------------------------------------------------------ C4
\* C4: with neither variable set the Greeter prints exactly the greeting
\* and an arguments line whose items are the arguments, all of them, in
\* order, and exits with status 0.
C4_PlainRun ==
    (GreeterDone /\ DOMAIN environ = {}) =>
        /\ Len(stdout) = 2
        /\ IsGreeting(stdout[1])
        /\ IsArguments(stdout[2])
        /\ ParseList(Tail(stdout[2])).ok
        /\ ParseList(Tail(stdout[2])).items = Tail(argv)
        /\ Count(IsRecognized) = 0
        /\ pc = "exited"
        /\ status = {0}

C4_Witness ==
    /\ GreeterDone /\ DOMAIN environ = {}
    /\ Len(argv) = 3 /\ argv[2] # argv[3] /\ BS \in Range(argv[2])
    /\ Len(stdout) = 2

\* ------------------------------------------------------------------ C5
\* C5: the fixture run without an argument prints "Custom exit code: 42"
\* and exits with status 42.
C5_DefaultExitCode ==
    (FixtureDone /\ Len(argv) = 1) =>
        /\ stdout = << <<"Custom exit code: ", "4", "2">> >>
        /\ pc = "exited"
        /\ status = {42}

C5_Witness == FixtureDone /\ Len(argv) = 1 /\ status = {42}

\* ------------------------------------------------------------------ C6
\* C6: a first argument that is the decimal text of n in 0..255 is printed
\* back after "Custom exit code: " and n is the exit status.
C6_InRangeExitCode ==
    (FixtureDone /\ Len(argv) > 1) =>
        \A n \in 0..255 :
            argv[2] = IntStr(n) =>
                /\ stdout = << <<"Custom exit code: ">> \o argv[2] >>
                /\ exit_code = n
                /\ pc = "exited"
                /\ status = {n}

C6_Witness ==
    /\ FixtureDone /\ Len(argv) > 1
    /\ argv[2] = <<"7", "3">> /\ status = {73}

\* ------------------------------------------------------------------ C7
\* a decimal numeral as str(int) writes it
Canonical(s) ==
    LET d == Unsigned(s)
    IN  /\ d # <<>>
        /\ \A i \in 1..Len(d) : d[i] \in Digits
        /\ Len(d) > 1 => d[1] # "0"
        /\ s = d \/ (Head(s) = "-" /\ d # <<"0">>)

\* C7: an integer argument n outside 0..255 is neither clamped nor
\* rejected: n is printed untruncated and the exit status is n modulo 256.
C7_OutOfRangeExitCode ==
    (FixtureDone /\ Len(argv) > 1 /\ Canonical(argv[2])
                 /\ exit_code \notin 0..255) =>
        /\ pc = "exited"
        /\ stdout = << <<"Custom exit code: ">> \o argv[2] >>
        /\ IntStr(exit_code) = argv[2]
        /\ status = {exit_code % 256}
        /\ argv[2] = <<"3", "0", "0">> => status = {44}
        /\ argv[2] = <<"-", "7">> => status = {249}

C7_Witness ==
    /\ FixtureDone /\ Len(argv) > 1
    /\ argv[2] = <<"3", "0", "0">> /\ status = {44}

\* ------------------------------------------------------------------ C8
\* C8: a first argument that is not an integer literal ends the fixture in
\* the fault state with a non-zero status; no "Custom exit code: " line is
\* printed and the default 42 is not used.
C8_ParseFault ==
    (FixtureDone /\ Len(argv) > 1) =>
        /\ ("x" \in Range(argv[2]) \/ Range(argv[2]) \cap Digits = {}) =>
               ~PyInt(argv[2]).ok
        /\ ~PyInt(argv[2]).ok =>
               /\ pc = "aborted"
               /\ status # {} /\ 0 \notin status /\ 42 \notin status
               /\ Count(IsCustom) = 0
               /\ stderr # <<>>
        /\ pc = "aborted" => ~PyInt(argv[2]).ok

C8_Witness ==
    /\ FixtureDone /\ Len(argv) > 1
    /\ argv[2] = <<"3", "x">> /\ pc = "aborted" /\ stdout = <<>>

\* ------------------------------------------------------------------ C9
\* C9: the literal values "false" and "0" count as set: EXAMPLE_RAISE
\* aborts and UV_CACHE_DIR prints the recognition line for them.
C9_FalseIsTruthy ==
    GreeterDone =>
        /\ ("EXAMPLE_RAISE" \in DOMAIN environ
                /\ environ["EXAMPLE_RAISE"] \in {STR_false, STR_0}) =>
               pc = "aborted" /\ status = {1}
        /\ ("UV_CACHE_DIR" \in DOMAIN environ
                /\ environ["UV_CACHE_DIR"] \in {STR_false, STR_0}) =>
               Count(IsRecognized) = 1

C9_Witness ==
    /\ GreeterDone /\ DOMAIN environ = {"UV_CACHE_DIR", "EXAMPLE_RAISE"}
    /\ environ["EXAMPLE_RAISE"] = STR_false
    /\ environ["UV_CACHE_DIR"] = STR_false
    /\ pc = "aborted" /\ Count(IsRecognized) = 1

\* ------------------------------------------------------------------ C10
OutputComplete ==
    /\ Count(IsGreeting) = 1
    /\ Count(IsArguments) = 1
    /\ Count(IsRecognized) = IF UVSet THEN 1 ELSE 0
    /\ Len(stdout) = IF UVSet THEN 3 ELSE 2

AbortIsLast ==
    prog = GREETER =>
        /\ (pc' = "aborted" /\ pc # "aborted") =>
               OutputComplete /\ stdout' = stdout
        /\ pc \in Terminal => stdout' = stdout /\ pc' = pc

\* C10: the abort is the last step: the whole output is printed before it
\* and nothing after it; every run prints exactly one greeting and one
\* arguments line and then terminates.
C10_AbortLast ==
    /\ [](GreeterDone => OutputComplete)
    /\ [][AbortIsLast]_vars
    /\ (prog = GREETER) ~> (pc \in Terminal)

C10_Witness ==
    /\ prog = GREETER /\ pc = "aborted" /\ UVSet
    /\ Len(stdout) = 3 /\ IsArguments(stdout[3])
====
